---- MODULE Spec2Model ----
(***************************************************************************)
(* A model of the software rasterizer of src/main.rs: the Image            *)
(* framebuffer (new, set, flip_horizontally, write), and the Renderer      *)
(* operations line, triangle and obj.                                      *)
(*                                                                         *)
(* Points are <<x, y>> (Rust's .0 is [1], .1 is [2]); Vec3 values are      *)
(* <<x, y, z>>.  The framebuffer is a function from 0 .. width*height-1    *)
(* to colours, indexed row * width + col as in Image::set.                 *)
(***************************************************************************)
EXTENDS Integers, Sequences, FiniteSets, TLC

\* Largest framebuffer width and height explored.
MaxW == 4
MaxH == 3
\* Largest framebuffer width and height explored for the framebuffer scenario.
MaxImageW == 3
MaxImageH == 3
\* Largest framebuffer width and height explored for lines.
MaxLineW == 6
MaxLineH == 6
\* Largest number of Image::set calls in one run of the framebuffer scenario.
MaxSets == 2
\* Largest number of primitives of the mesh walked by Renderer::obj.
MaxPrims == 2

(***************************************************************************)
(* f32 arithmetic.  A value is finite (the rational n/d, d > 0, with the   *)
(* sign bit s so that +0.0 and -0.0 differ), infinite (sign s) or a NaN.   *)
(* The operands of the code are small integers, so sums and products are   *)
(* exact; a quotient is kept as the exact rational, which has the same     *)
(* sign and the same order against 1.0 as the rounded f32 quotient as long *)
(* as the divisor is below 2^24 in magnitude.                              *)
(***************************************************************************)
Fin(n, d, s) == [c |-> "fin", n |-> n, d |-> d, s |-> s]

Inf(s) == [c |-> "inf", n |-> 0, d |-> 1, s |-> s]

NaN == [c |-> "nan", n |-> 0, d |-> 1, s |-> FALSE]

\* `v as f32` of an integer, and an integer literal such as 1.0
F(v) == Fin(v, 1, v < 0)

Abs(v) == IF v < 0 THEN -v ELSE v

FNeg(a) == IF a.c = "nan" THEN NaN ELSE [a EXCEPT !.n = -a.n, !.s = ~a.s]

FAdd(a, b) ==
    IF a.c = "nan" \/ b.c = "nan" THEN NaN
    ELSE IF a.c = "inf" /\ b.c = "inf" THEN (IF a.s = b.s THEN a ELSE NaN)
    ELSE IF a.c = "inf" THEN a
    ELSE IF b.c = "inf" THEN b
    ELSE LET n == a.n * b.d + b.n * a.d
         IN  IF n # 0 THEN Fin(n, a.d * b.d, n < 0)
             ELSE Fin(0, 1, a.n = 0 /\ b.n = 0 /\ a.s /\ b.s)

FSub(a, b) == FAdd(a, FNeg(b))

FMul(a, b) ==
    IF a.c = "nan" \/ b.c = "nan" THEN NaN
    ELSE IF a.c = "inf" \/ b.c = "inf"
         THEN (IF (a.c = "fin" /\ a.n = 0) \/ (b.c = "fin" /\ b.n = 0)
               THEN NaN ELSE Inf(a.s # b.s))
    ELSE Fin(a.n * b.n, a.d * b.d, a.s # b.s)

FDiv(a, b) ==
    IF a.c = "nan" \/ b.c = "nan" THEN NaN
    ELSE IF a.c = "inf" THEN (IF b.c = "inf" THEN NaN ELSE Inf(a.s # b.s))
    ELSE IF b.c = "inf" THEN Fin(0, 1, a.s # b.s)
    ELSE IF b.n = 0 THEN (IF a.n = 0 THEN NaN ELSE Inf(a.s # b.s))
    ELSE Fin((IF b.n < 0 THEN -1 ELSE 1) * a.n * b.d, a.d * Abs(b.n), a.s # b.s)

\* a < b on f32: every comparison with a NaN is false
FLt(a, b) ==
    IF a.c = "nan" \/ b.c = "nan" THEN FALSE
    ELSE IF a.c = "inf" THEN a.s /\ ~(b.c = "inf" /\ b.s)
    ELSE IF b.c = "inf" THEN ~b.s
    ELSE a.n * b.d < b.n * a.d

\* glam's Vec3::cross
cross(a, b) ==
    << FSub(FMul(a[2], b[3]), FMul(a[3], b[2])),
       FSub(FMul(a[3], b[1]), FMul(a[1], b[3])),
       FSub(FMul(a[1], b[2]), FMul(a[2], b[1])) >>

(***************************************************************************)
(* Colours.  A channel is the real number n / sqrt(q) (q > 0), or a NaN:   *)
(* the form in which the light intensity of Renderer::obj is exact.        *)
(***************************************************************************)
Chan(n, q) == [c |-> "fin", n |-> n, q |-> q]

ChanNaN == [c |-> "nan", n |-> 0, q |-> 1]

\* the colour Image::new fills the buffer with: vec3(0.1, 0.1, 0.1)
Background == << Chan(1, 100), Chan(1, 100), Chan(1, 100) >>

red == << Chan(1, 1), Chan(0, 1), Chan(0, 1) >>

green == << Chan(0, 1), Chan(1, 1), Chan(0, 1) >>

blue == << Chan(0, 1), Chan(0, 1), Chan(1, 1) >>

(***************************************************************************)
(* Image                                                                   *)
(***************************************************************************)
\* Image::new: width * height pixels of the background colour
ImageNew(w, h) == [i \in 0 .. (w * h - 1) |-> Background]

\* Image::set with the row and the column exchanged in the index
ImageSetTransposed(img, w, col, row, pixel) ==
    LET index == col * w + row
    IN  IF img.panicked THEN img
        ELSE IF col < 0 \/ row < 0 \/ index \notin DOMAIN img.data
             THEN [img EXCEPT !.panicked = TRUE]
             ELSE [img EXCEPT !.data[index] = pixel]

\* Image::set as Vec::insert(index, pixel): the pixels from index on move up
ImageInsert(img, w, col, row, pixel) ==
    LET index == row * w + col
        len   == Cardinality(DOMAIN img.data)
    IN  IF img.panicked THEN img
        ELSE IF col < 0 \/ row < 0 \/ index > len
             THEN [img EXCEPT !.panicked = TRUE]
             ELSE [img EXCEPT !.data =
                      [i \in 0 .. len |->
                          IF i < index THEN img.data[i]
                          ELSE IF i = index THEN pixel
                          ELSE img.data[i - 1]]]

\* Image::set on the buffer d of an image of width w.  The index is checked
\* by the Vec: an index past the end panics.  A negative coordinate stands
\* for a negative i32 cast to usize, which is past every buffer.
ImageSet(img, w, col, row, pixel) ==
    LET index == row * w + col
    IN  IF img.panicked THEN img
        ELSE IF col < 0 \/ row < 0 \/ index \notin DOMAIN img.data
             THEN [img EXCEPT !.panicked = TRUE]
             ELSE [img EXCEPT !.data[index] = pixel]

\* The calls Renderer::set(x, y, color) of a sequence of points, in order.
RECURSIVE SetAll(_, _, _, _)
SetAll(img, w, calls, color) ==
    IF calls = << >> THEN img
    ELSE SetAll(ImageSet(img, w, Head(calls)[1], Head(calls)[2], color),
                w, Tail(calls), color)

(***************************************************************************)
(* Renderer::triangle                                                      *)
(***************************************************************************)
Min(a, b) == IF a < b THEN a ELSE b

Max(a, b) == IF a > b THEN a ELSE b

find_box(a, b, c) ==
    [min |-> << Min(a[1], Min(b[1], c[1])), Min(a[2], Min(b[2], c[2])) >>,
     max |-> << Max(a[1], Max(b[1], c[1])), Max(a[2], Max(b[2], c[2])) >>]

\* the closure `barycentric` of Renderer::triangle
barycentric(a, b, c, p) ==
    LET xs == << FSub(F(c[1]), F(a[1])), FSub(F(b[1]), F(a[1])), FSub(F(a[1]), F(p[1])) >>
        ys == << FSub(F(c[2]), F(a[2])), FSub(F(b[2]), F(a[2])), FSub(F(a[2]), F(p[2])) >>
        u  == cross(xs, ys)
    IN  << FSub(F(1), FDiv(FAdd(u[1], u[2]), u[3])),
           FDiv(u[2], u[3]),
           FDiv(u[1], u[3]) >>

\* the test of the fill loop without its third comparison
OutOfTriangleTwo(bc) == FLt(bc[1], F(0)) \/ FLt(bc[2], F(0))

\* the test of the fill loop: (x, y) is out of the triangle
OutOfTriangle(bc) == FLt(bc[1], F(0)) \/ FLt(bc[2], F(0)) \/ FLt(bc[3], F(0))

\* the bounding box after the two "corner case" decrements
ClampedMax(w, h, box) ==
    << IF box.max[1] = w - 1 THEN box.max[1] - 1 ELSE box.max[1],
       IF box.max[2] = h - 1 THEN box.max[2] - 1 ELSE box.max[2] >>

\* the row-major scan  for y in lo[2]..=hi[2] { for x in lo[1]..=hi[1] }
Scan(lo, hi) ==
    LET nx == hi[1] - lo[1] + 1
        ny == hi[2] - lo[2] + 1
    IN  IF nx <= 0 \/ ny <= 0 THEN << >>
        ELSE [k \in 1 .. (nx * ny) |->
                << lo[1] + ((k - 1) % nx), lo[2] + ((k - 1) \div nx) >>]

\* The calls self.set(x, y, color) that Renderer::triangle makes, in order.
TriangleCalls(w, h, a, b, c) ==
    LET box == find_box(a, b, c)
    IN  IF box.min[1] = box.max[1] \/ box.min[2] = box.max[2] THEN << >>
        ELSE SelectSeq(Scan(box.min, ClampedMax(w, h, box)),
                       LAMBDA p : ~OutOfTriangle(barycentric(a, b, c, p)))

(***************************************************************************)
(* Renderer::line                                                          *)
(***************************************************************************)
\* if dx < dy { swap(x0, y0); swap(x1, y1) }: the endpoints, transposed when steep
Transposed(steep, p) == IF steep THEN << p[2], p[1] >> ELSE p

\* the endpoints left in the order given
KeepOrder(p0, p1) == << p0, p1 >>

\* if x0 > x1 { swap(x0, x1); swap(y0, y1) }: "draw from left to right"
LeftToRight(p0, p1) == IF p0[1] > p1[1] THEN << p1, p0 >> ELSE << p0, p1 >>

\* the pixel written without the transposition undone
PlotTransposed(steep, x, y) == << x, y >>

\* the pixel a loop iteration writes: self.set(y, x) when steep, else self.set(x, y)
Plot(steep, x, y) == IF steep THEN << y, x >> ELSE << x, y >>

\* for x in x0..(x1 + 1): the calls of self.set from x on, with the running y, error2
RECURSIVE LineLoop(_, _, _, _, _, _, _, _)
LineLoop(x, x1, y, error2, dx, derror2, y_step, steep) ==
    IF x > x1 THEN << >>
    ELSE LET e    == error2 + derror2
             step == e > dx
         IN  << Plot(steep, x, y) >> \o
             LineLoop(x + 1, x1,
                      IF step THEN y + y_step ELSE y,
                      IF step THEN e - dx * 2 ELSE e,
                      dx, derror2, y_step, steep)

\* The calls self.set(col, row, color) that Renderer::line(A, B, color) makes, in order.
LineCalls(A, B) ==
    LET steep == Abs(B[1] - A[1]) < Abs(B[2] - A[2])
        ends  == LeftToRight(Transposed(steep, A), Transposed(steep, B))
        x0    == ends[1][1]
        y0    == ends[1][2]
        x1    == ends[2][1]
        y1    == ends[2][2]
        dx    == x1 - x0
        dy    == y1 - y0
    IN  LineLoop(x0, x1, y0, 0, dx, Abs(dy) * 2, IF y1 > y0 THEN 1 ELSE -1, steep)

(***************************************************************************)
(* Image::flip_horizontally and Image::write                               *)
(***************************************************************************)
\* for col in 0..width { data.swap(idx + col, bottom_idx + col) }
SwapRows(d, w, idx, bottom_idx) ==
    [i \in DOMAIN d |->
        IF i >= idx /\ i < idx + w THEN d[bottom_idx + (i - idx)]
        ELSE IF i >= bottom_idx /\ i < bottom_idx + w THEN d[idx + (i - bottom_idx)]
        ELSE d[i]]

\* for row in row..rows { ... }
RECURSIVE FlipLoop(_, _, _, _, _)
FlipLoop(d, w, h, row, rows) ==
    IF row >= rows THEN d
    ELSE FlipLoop(SwapRows(d, w, row * w, (h - row - 1) * w), w, h, row + 1, rows)

\* the loop over every row: each pair of rows is exchanged twice
flip_all_rows(d, w, h) == FlipLoop(d, w, h, 0, h)

flip_horizontally(d, w, h) == FlipLoop(d, w, h, 0, (h + 1) \div 2)

\* 256.0 * clamp(ch, 0.0, 0.999), then `as u8`: truncation, a NaN becomes 0
ToU8(ch) ==
    IF ch.c = "nan" THEN 0
    ELSE IF ch.n < 0 THEN 0
    ELSE IF ch.n * ch.n * 1000000 > 998001 * ch.q THEN 255
    ELSE CHOOSE k \in 0 .. 255 :
            /\ k * k * ch.q <= 65536 * ch.n * ch.n
            /\ (k + 1) * (k + 1) * ch.q > 65536 * ch.n * ch.n

\* Image::write: the PPM header, then one line per chunk of `width` pixels
ImageWrite(d, w, h) ==
    LET len    == w * h
        chunks == (len + w - 1) \div w
    IN  [magic |-> "P3", width |-> w, height |-> h, maxval |-> 255,
         lines |-> [r \in 1 .. chunks |->
                      [k \in 1 .. Min(w, len - (r - 1) * w) |->
                          LET pixel == d[(r - 1) * w + (k - 1)]
                          IN  << ToU8(pixel[1]), ToU8(pixel[2]), ToU8(pixel[3]) >>]]]

(***************************************************************************)
(* Renderer::obj                                                           *)
(***************************************************************************)
\* the closure `translate`: model coordinates in [-1, 1] to pixel coordinates;
\* `as usize` truncates and saturates a negative value to 0
ToPixel(v, extent) ==
    LET twice == (v + 1) * (extent - 1)
    IN  IF twice < 0 THEN 0 ELSE twice \div 2

translate(vertex, w, h) == << ToPixel(vertex[1], w), ToPixel(vertex[2], h) >>

to_vec3(p) == << F(p[1]), F(p[2]), F(p[3]) >>

VSub(a, b) == << FSub(a[1], b[1]), FSub(a[2], b[2]), FSub(a[3], b[3]) >>

\* (p3 - p1).cross(p2 - p1), before .normalize()
FaceNormal(p1, p2, p3) ==
    cross(VSub(to_vec3(p3), to_vec3(p1)), VSub(to_vec3(p2), to_vec3(p1)))

\* normal.normalize().dot(vec3(0.0, 0.0, -1.0)) as the real -n.z / |n| with its
\* sign bit.  A zero normal normalizes to NaNs, and the sign bit of that NaN is
\* the target's (set on x86, clear on ARM): nanSign.  A zero sum of the three
\* products is -0.0 only when all three are -0.0.
Intensity(p1, p2, p3, nanSign) ==
    LET n    == FaceNormal(p1, p2, p3)
        len2 == n[1].n * n[1].n + n[2].n * n[2].n + n[3].n * n[3].n
    IN  IF len2 = 0 THEN [c |-> "nan", n |-> 0, q |-> 1, s |-> nanSign]
        ELSE [c |-> "fin", n |-> -n[3].n, q |-> len2,
              s |-> IF n[3].n # 0 THEN n[3].n > 0
                    ELSE n[1].s /\ n[2].s /\ ~n[3].s]

\* f32::is_sign_positive
is_sign_positive(i) == ~i.s

\* white() * intensity: the channel value intensity, in lowest terms
Shade(i) ==
    IF i.c = "nan" THEN ChanNaN
    ELSE IF i.n = 0 THEN Chan(0, 1)
    ELSE LET g == CHOOSE g \in 1 .. Abs(i.n) :
                     /\ i.n % g = 0 /\ i.q % (g * g) = 0
                     /\ \A k \in (g + 1) .. Abs(i.n) :
                            ~(i.n % k = 0 /\ i.q % (k * k) = 0)
         IN  Chan(i.n \div g, i.q \div (g * g))

ShadeColor(i) == << Shade(i), Shade(i), Shade(i) >>

(***************************************************************************)
(* The state: one Renderer and its target Image, with the record of the    *)
(* last call made on it.                                                   *)
(***************************************************************************)
VARIABLES
    width,      \* Image.width
    height,     \* Image.height
    data,       \* Image.data
    panicked,   \* an index past the end of Image.data was written: the process aborted
    out,        \* what Image::write emitted, NoOut before Renderer::save
    op,         \* the last call: its kind and its arguments
    prev,       \* the call before it
    pre,        \* Image.data before the last call
    writes,     \* the self.set(x, y, ..) calls of the last call, in order
    pwrites,    \* the self.set(x, y, ..) calls of the call before it
    nsets,      \* Image::set calls made directly so far
    nprims      \* primitives walked by Renderer::obj so far

vars == << width, height, data, panicked, out, op, prev, pre, writes, pwrites,
           nsets, nprims >>

NoInt == [c |-> "none", n |-> 0, q |-> 1, s |-> FALSE]

Call(kind, pts, color, verts, int, called) ==
    [kind |-> kind, pts |-> pts, color |-> color, verts |-> verts,
     int |-> int, called |-> called]

NoCall == Call("new", << >>, Background, << >>, NoInt, FALSE)

NoOut == [magic |-> "", width |-> 0, height |-> 0, maxval |-> 0, lines |-> << >>]

\* the pixels of the framebuffer
Pixels == (0 .. (width - 1)) \X (0 .. (height - 1))

\* colours of the direct calls
Palette == {red, green}

\* colour of the direct Renderer::triangle calls
FillColors == {red}

\* values random_color() may return: each channel is a random f32 of [0, 1)
RandomColors == { << Chan(1, 4), Chan(0, 1), Chan(1, 4) >>,
                  << Chan(0, 1), Chan(1, 4), Chan(0, 1) >> }

\* object.vertices of the mesh handed to Renderer::obj: coordinates in [-1, 1]
Vertices == << << -1, -1, 0 >>, << 1, 1, 0 >>, << 0, 0, 1 >>, << 1, -1, -1 >> >>

\* Renderer::new(width, height)
Init ==
    /\ width \in 1 .. MaxW
    /\ height \in 1 .. MaxH
    /\ data = ImageNew(width, height)
    /\ panicked = FALSE
    /\ out = NoOut
    /\ op = NoCall
    /\ prev = NoCall
    /\ pre = ImageNew(width, height)
    /\ writes = << >>
    /\ pwrites = << >>
    /\ nsets = 0
    /\ nprims = 0

\* Image::new(width, height), for the framebuffer scenario
InitImage ==
    /\ width \in 1 .. MaxImageW
    /\ height \in 1 .. MaxImageH
    /\ data = ImageNew(width, height)
    /\ panicked = FALSE
    /\ out = NoOut
    /\ op = NoCall
    /\ prev = NoCall
    /\ pre = ImageNew(width, height)
    /\ writes = << >>
    /\ pwrites = << >>
    /\ nsets = 0
    /\ nprims = 0

\* Renderer::new(width, height), for the line scenario
InitLine ==
    /\ width \in 1 .. MaxLineW
    /\ height \in 1 .. MaxLineH
    /\ data = ImageNew(width, height)
    /\ panicked = FALSE
    /\ out = NoOut
    /\ op = NoCall
    /\ prev = NoCall
    /\ pre = ImageNew(width, height)
    /\ writes = << >>
    /\ pwrites = << >>
    /\ nsets = 0
    /\ nprims = 0

\* A call that makes the self.set calls `calls` with `color`.
Draw(rec, calls, color) ==
    LET img == SetAll([data |-> data, panicked |-> panicked], width, calls, color)
    IN  /\ data' = img.data
        /\ panicked' = img.panicked
        /\ writes' = calls
        /\ pwrites' = writes
        /\ pre' = data
        /\ prev' = op
        /\ op' = rec
        /\ UNCHANGED << width, height, out >>

Running == ~panicked /\ out = NoOut

\* Image::set(col, row, pixel), called directly
SetPixel ==
    /\ Running
    /\ nsets < MaxSets
    /\ \E p \in Pixels, color \in Palette :
          Draw(Call("set", << p >>, color, << >>, NoInt, FALSE), << p >>, color)
    /\ nsets' = nsets + 1
    /\ UNCHANGED nprims

\* Image::flip_horizontally
Flip ==
    /\ Running
    /\ data' = flip_horizontally(data, width, height)
    /\ pre' = data
    /\ prev' = op
    /\ op' = Call("flip", << >>, Background, << >>, NoInt, FALSE)
    /\ writes' = << >>
    /\ pwrites' = writes
    /\ UNCHANGED << width, height, panicked, out, nsets, nprims >>

\* Renderer::save: Image::write to the file
Save ==
    /\ Running
    /\ out' = ImageWrite(data, width, height)
    /\ UNCHANGED << width, height, data, panicked, op, prev, pre, writes, pwrites,
                    nsets, nprims >>

\* Renderer::set(x, y, color) on the fresh framebuffer
Point ==
    /\ Running
    /\ op.kind = "new"
    /\ \E p \in Pixels :
          Draw(Call("point", << p >>, blue, << >>, NoInt, FALSE), << p >>, blue)
    /\ UNCHANGED << nsets, nprims >>

\* Renderer::triangle(a, b, c, color)
Triangle ==
    /\ Running
    /\ op.kind \in {"new", "point"}
    /\ \E a \in Pixels, b \in Pixels, c \in Pixels, color \in FillColors :
          Draw(Call("triangle", << a, b, c >>, color, << >>, NoInt, TRUE),
               TriangleCalls(width, height, a, b, c), color)
    /\ UNCHANGED << nsets, nprims >>

\* Renderer::triangle once more, with the vertices and the colour of the last call
Redraw ==
    /\ Running
    /\ op.kind = "triangle"
    /\ Draw([op EXCEPT !.kind = "redraw"],
            TriangleCalls(width, height, op.pts[1], op.pts[2], op.pts[3]), op.color)
    /\ UNCHANGED << nsets, nprims >>

\* Renderer::line(A, B, color)
Line ==
    /\ Running
    /\ op.kind = "new"
    /\ \E A \in Pixels, B \in Pixels, color \in Palette :
          Draw(Call("line", << A, B >>, color, << >>, NoInt, FALSE),
               LineCalls(A, B), color)
    /\ UNCHANGED << nsets, nprims >>

\* Renderer::line(B, A, color) after Renderer::line(A, B, color)
LineBack ==
    /\ Running
    /\ op.kind = "line"
    /\ Draw(Call("lineback", << op.pts[2], op.pts[1] >>, op.color, << >>, NoInt, FALSE),
            LineCalls(op.pts[2], op.pts[1]), op.color)
    /\ UNCHANGED << nsets, nprims >>

\* Renderer::obj, the arm Primitive::Triangle(x, y, z)
ObjTriangle ==
    /\ Running
    /\ nprims < MaxPrims
    /\ \E x \in DOMAIN Vertices, y \in DOMAIN Vertices, z \in DOMAIN Vertices,
          nanSign \in BOOLEAN :
          LET p1        == Vertices[x]
              p2        == Vertices[y]
              p3        == Vertices[z]
              intensity == Intensity(p1, p2, p3, nanSign)
              a         == translate(p1, width, height)
              b         == translate(p2, width, height)
              c         == translate(p3, width, height)
              color     == ShadeColor(intensity)
              called    == is_sign_positive(intensity)
          IN  /\ intensity.c = "nan" \/ ~nanSign
              /\ Draw(Call("objtriangle", << a, b, c >>, color, << p1, p2, p3 >>,
                           intensity, called),
                      IF called THEN TriangleCalls(width, height, a, b, c) ELSE << >>,
                      color)
    /\ nprims' = nprims + 1
    /\ UNCHANGED nsets

\* Renderer::obj, the arm Primitive::Line(x, y)
ObjLine ==
    /\ Running
    /\ nprims < MaxPrims
    /\ \E x \in DOMAIN Vertices, y \in DOMAIN Vertices, color \in RandomColors :
          LET A == translate(Vertices[x], width, height)
              B == translate(Vertices[y], width, height)
          IN  Draw(Call("objline", << A, B >>, color, << Vertices[x], Vertices[y] >>,
                        NoInt, FALSE),
                   LineCalls(A, B), color)
    /\ nprims' = nprims + 1
    /\ UNCHANGED nsets

\* Renderer::obj, the arm Primitive::Point(x)
ObjPoint ==
    /\ Running
    /\ nprims < MaxPrims
    /\ \E x \in DOMAIN Vertices, color \in RandomColors :
          LET p == translate(Vertices[x], width, height)
          IN  Draw(Call("objpoint", << p >>, color, << Vertices[x] >>, NoInt, FALSE),
                   << p >>, color)
    /\ nprims' = nprims + 1
    /\ UNCHANGED nsets

\* The framebuffer alone: pixels set, rows flipped, the image written.
NextImage == SetPixel \/ Flip \/ Save

SpecImage == InitImage /\ [][NextImage]_vars

\* A point, a triangle over it, and the same triangle once more.
NextTriangle == Point \/ Triangle \/ Redraw

SpecTriangle == Init /\ [][NextTriangle]_vars

\* A line, and the same line from its other end.
NextLine == Line \/ LineBack

SpecLine == InitLine /\ [][NextLine]_vars

\* Renderer::obj over a mesh of at most MaxPrims primitives.
NextObj == ObjTriangle \/ ObjLine \/ ObjPoint

SpecObj == Init /\ [][NextObj]_vars

(***************************************************************************)
(* Notions the properties are stated in, computed over the integers and    *)
(* independently of the f32 code above.                                    *)
(***************************************************************************)
Range(s) == {s[i] : i \in DOMAIN s}

\* twice the signed area of the triangle (a, b, c)
Area2(a, b, c) == (b[1] - a[1]) * (c[2] - a[2]) - (c[1] - a[1]) * (b[2] - a[2])

\* the pixels of the bounding box of a set of points
BoxOf(S) ==
    {p \in Pixels : /\ \E q \in S : q[1] <= p[1]
                    /\ \E q \in S : q[1] >= p[1]
                    /\ \E q \in S : q[2] <= p[2]
                    /\ \E q \in S : q[2] >= p[2]}

\* the three barycentric weights of p in the triangle (a, b, c) are >= 0
Covered(a, b, c, p) ==
    LET d == Area2(a, b, c)
    IN  /\ Area2(p, b, c) * d >= 0
        /\ Area2(a, p, c) * d >= 0
        /\ Area2(a, b, p) * d >= 0

Index(p) == p[2] * width + p[1]

InFrame(p) ==
    /\ 0 <= p[1] /\ p[1] < width
    /\ 0 <= p[2] /\ p[2] < height
    /\ Index(p) < width * height

A1 == op.pts[1]

A2 == op.pts[2]

A3 == op.pts[3]

\* C1: a triangle of non-zero area with vertices in the framebuffer writes
\* exactly the pixels of its bounding box whose three barycentric weights are
\* all >= 0, also when it touches the last column or the last row.
C1_ExactFill ==
    (op.kind = "triangle" /\ Area2(A1, A2, A3) # 0)
        => Range(writes) = {p \in BoxOf({A1, A2, A3}) : Covered(A1, A2, A3, p)}

\* C2: a triangle of zero signed area (coincident or collinear vertices, along
\* an axis or along a diagonal) writes no pixel: the framebuffer is unchanged.
C2_DegenerateSkipped ==
    (op.kind = "triangle" /\ Area2(A1, A2, A3) = 0)
        => (writes = << >> /\ data = pre)

\* C10: every pixel a triangle of non-zero area writes lies in its bounding
\* box and in the closed triangle, so inside the framebuffer, at an index below
\* width * height.
C10_WriteSafety ==
    (op.kind = "triangle" /\ Area2(A1, A2, A3) # 0)
        => /\ ~panicked
           /\ \A i \in DOMAIN writes :
                 /\ writes[i] \in BoxOf({A1, A2, A3})
                 /\ Covered(A1, A2, A3, writes[i])
                 /\ InFrame(writes[i])
                 /\ data[Index(writes[i])] = op.color

\* a triangle that touches the last column, fills some pixels of its bounding
\* box and leaves others, over a framebuffer that holds a point already
C10_Witness ==
    /\ op.kind = "triangle" /\ Area2(A1, A2, A3) # 0
    /\ prev.kind = "point"
    /\ \E v \in {A1, A2, A3} : v[1] = width - 1
    /\ Cardinality(Range(writes)) >= 3
    /\ \E p \in BoxOf({A1, A2, A3}) : ~Covered(A1, A2, A3, p) /\ p \notin Range(writes)

\* C8: Renderer::triangle called a second time with the same vertices and the
\* same colour leaves the framebuffer as the first call left it.
C8_RedrawIdempotent ==
    (op.kind = "redraw") => (data = pre /\ ~panicked)

\* a triangle drawn twice over a framebuffer that held a point outside it
C8_Witness ==
    /\ op.kind = "redraw"
    /\ Cardinality(Range(writes)) >= 3
    /\ \E p \in Pixels : data[Index(p)] = blue
    /\ \E p \in Pixels : data[Index(p)] = Background

\* C5: Renderer::line(A, B, color) and Renderer::line(B, A, color) write the
\* same set of pixels.
C5_LineSymmetric ==
    (op.kind = "lineback") => (Range(writes) = Range(pwrites) /\ ~panicked)

\* a shallow line that is neither horizontal nor diagonal, drawn right to left
\* and then left to right
C5_Witness ==
    /\ op.kind = "lineback"
    /\ A1[1] + 2 <= A2[1]
    /\ A1[2] # A2[2]
    /\ Abs(A2[1] - A1[1]) > Abs(A2[2] - A1[2])
    /\ Len(writes) >= 3

Major == IF Abs(A2[1] - A1[1]) >= Abs(A2[2] - A1[2]) THEN 1 ELSE 2

Minor == 3 - Major

\* C9: Renderer::line writes max(|dx|, |dy|) + 1 pixels, one per coordinate of
\* the major axis, the minor coordinate moving by at most one between
\* neighbours; they start and end at A and B, stay in the bounding box of A
\* and B, and are the single pixel A when A = B.
C9_LinePixels ==
    (op.kind = "line") =>
        LET n == Max(Abs(A2[1] - A1[1]), Abs(A2[2] - A1[2]))
        IN  /\ ~panicked
            /\ Len(writes) = n + 1
            /\ Cardinality(Range(writes)) = n + 1
            /\ {writes[1], writes[n + 1]} = {A1, A2}
            /\ \A i \in 1 .. (n + 1) :
                  /\ writes[i] \in BoxOf({A1, A2})
                  /\ InFrame(writes[i])
                  /\ writes[i][Major] = Min(A1[Major], A2[Major]) + i - 1
                  /\ data[Index(writes[i])] = op.color
            /\ \A i \in 1 .. n :
                  Abs(writes[i + 1][Minor] - writes[i][Minor]) <= 1
            /\ (A1 = A2 => writes = << A1 >>)

\* a steep line, drawn downwards, whose minor coordinate moves
C9_Witness ==
    /\ op.kind = "line"
    /\ Abs(A2[2] - A1[2]) > Abs(A2[1] - A1[1])
    /\ A1[2] > A2[2]
    /\ A1[1] # A2[1]
    /\ Len(writes) >= 3

\* C6: Image::flip_horizontally reverses the row order: the pixel at
\* (col, row) is the one that was at (col, height - 1 - row), and a second flip
\* restores the buffer.
C6_FlipReversesRows ==
    (op.kind = "flip") =>
        /\ DOMAIN data = DOMAIN pre
        /\ \A p \in Pixels :
              data[Index(p)] = pre[(height - 1 - p[2]) * width + p[1]]
        /\ flip_horizontally(data, width, height) = pre

\* a flip of an odd number of rows, more than one, that changed the buffer
C6_Witness ==
    /\ op.kind = "flip"
    /\ height % 2 = 1 /\ height > 1 /\ width > 1
    /\ data # pre

Rgb8(pixel) == << ToU8(pixel[1]), ToU8(pixel[2]), ToU8(pixel[3]) >>

\* C7: Image::new fills width * height pixels with the background colour;
\* Image::set(col, row, color) changes the pixel at index row * width + col and
\* no other; Image::write emits the rows in order, pixel (col, row) as entry
\* col of line row, red as 255 0 0 and the background as 25 25 25.
C7_NewSetWrite ==
    /\ (op.kind = "new") =>
          /\ DOMAIN data = 0 .. (width * height - 1)
          /\ \A i \in DOMAIN data : data[i] = Background
    /\ (op.kind = "set") =>
          /\ ~panicked
          /\ DOMAIN data = DOMAIN pre
          /\ data[A1[2] * width + A1[1]] = op.color
          /\ \A i \in DOMAIN data : i # A1[2] * width + A1[1] => data[i] = pre[i]
    /\ (out # NoOut) =>
          /\ out.magic = "P3" /\ out.width = width /\ out.height = height
          /\ out.maxval = 255
          /\ Len(out.lines) = height
          /\ \A r \in 1 .. height : Len(out.lines[r]) = width
          /\ \A p \in Pixels :
                LET entry == out.lines[p[2] + 1][p[1] + 1]
                    pixel == data[Index(p)]
                IN  /\ pixel = red => entry = << 255, 0, 0 >>
                    /\ pixel = green => entry = << 0, 255, 0 >>
                    /\ pixel = Background => entry = << 25, 25, 25 >>
          /\ (op.kind = "set") => out.lines[A1[2] + 1][A1[1] + 1] = Rgb8(op.color)

\* a red pixel set off the diagonal of a non-square image, and the image written
C7_Witness ==
    /\ out # NoOut
    /\ op.kind = "set" /\ op.color = red
    /\ width # height /\ A1[1] # A1[2] /\ A1[1] > 0 /\ A1[2] > 0
    /\ out.lines[A1[2] + 1][A1[1] + 1] = << 255, 0, 0 >>
    /\ \E p \in Pixels : out.lines[p[2] + 1][p[1] + 1] = << 25, 25, 25 >>

\* the depth of the triangle of call r at pixel p: the barycentric combination
\* of the z of its three vertices, as the fraction DepthNum / DepthDen
DepthNum(r, p) ==
    Area2(p, r.pts[2], r.pts[3]) * r.verts[1][3]
        + Area2(r.pts[1], p, r.pts[3]) * r.verts[2][3]
        + Area2(r.pts[1], r.pts[2], p) * r.verts[3][3]

DepthDen(r) == Area2(r.pts[1], r.pts[2], r.pts[3])

\* the triangle of call r is strictly nearer to the camera than that of q at p
Nearer(r, q, p) ==
    DepthNum(r, p) * DepthDen(r) * DepthDen(q) * DepthDen(q)
        > DepthNum(q, p) * DepthDen(q) * DepthDen(r) * DepthDen(r)

\* C3: of two lit triangles drawn one after the other, a pixel both cover ends
\* with the colour of the one nearer to the camera there: the later one where
\* it is strictly nearer, the earlier one where the later one is farther.
C3_NearestWins ==
    (/\ op.kind = "objtriangle" /\ prev.kind = "objtriangle"
     /\ op.int.n > 0 /\ prev.int.n > 0
     /\ DepthDen(op) # 0 /\ DepthDen(prev) # 0) =>
        \A p \in Range(pwrites) :
            (p \in BoxOf({A1, A2, A3}) /\ Covered(A1, A2, A3, p)) =>
                /\ Nearer(op, prev, p) => data[Index(p)] = op.color
                /\ Nearer(prev, op, p) => data[Index(p)] = prev.color

\* C4: a triangle primitive whose normal has a non-positive dot product with
\* the light direction (0, 0, -1), zero included, writes no pixel of the
\* framebuffer.
C4_BackFaceCulled ==
    (op.kind = "objtriangle" /\ op.int.c = "fin" /\ op.int.n <= 0)
        => (writes = << >> /\ data = pre)

====
